---- MODULE Spec2Model ----
(***************************************************************************)
(* Uniform plumbing of rendertoy's compute path (src/src/shader.rs):       *)
(* resolve (concurrent resolution of a uniform bundle), flatten_uniforms   *)
(* (linearisation into SetUniform / EnterScope / LeaveScope events),       *)
(* update_descriptor_sets (reflection-driven binder) and compute_tex (the  *)
(* dispatch orchestrator).                                                 *)
(***************************************************************************)
EXTENDS Integers, Sequences, FiniteSets, TLC

VARIABLES
    key,                    \* compute_tex argument: TextureKey of the output
    bundle,                 \* compute_tex argument: the caller's uniforms
    pc,                     \* position inside compute_tex
    output_tex,             \* texture made by create_texture(*key)
    cs,                     \* the ComputeShader obtained from ctx.get(cs)
    tasks,                  \* spawned per-holder tasks, keyed by holder path
    completed,              \* history: paths of the tasks in completion order
    failed_any,             \* history: some holder's resolution failed
    reversed,               \* history: joins whose tasks completed in reverse order
    uniforms,               \* resolved bundle (local `uniforms` of compute_tex)
    events,                 \* history: PlumberEvents delivered to the sink
    flattened_uniforms,     \* HashMap<String, ResolvedShaderUniformValue>
    descriptor_pool_mutex,  \* vk_frame.descriptor_pool
    command_buffer_mutex,   \* vk_frame.command_buffer
    descriptor_sets,        \* sets returned by allocate_descriptor_sets
    dynamic_offsets,        \* offsets returned by update_descriptor_sets
    arena,                  \* vk_frame.uniforms: bytes handed out so far
    device_updates,         \* batches passed to device.update_descriptor_sets
    commands,               \* commands recorded on the frame's command buffer
    reports,                \* gpu_debugger::report_texture calls
    other_pc,               \* position of a second compute_tex on the same frame
    result                  \* what compute_tex returned (or how it ended)

args == <<key, bundle>>
resolveVars == <<tasks, completed, failed_any, reversed>>
flatVars == <<uniforms, events, flattened_uniforms>>
gpuVars == <<descriptor_pool_mutex, command_buffer_mutex, descriptor_sets,
             dynamic_offsets, arena, device_updates, commands>>
vars == <<key, bundle, pc, output_tex, cs, tasks, completed, failed_any, reversed,
          uniforms, events,
          flattened_uniforms, descriptor_pool_mutex, command_buffer_mutex,
          descriptor_sets, dynamic_offsets, arena, device_updates, commands,
          reports, other_pc, result>>

----------------------------------------------------------------------------
(* Bounds of the model *)

\* total number of holders (all levels) in the bundle handed to compute_tex
MaxHolders == 3
\* nesting levels of the bundle handed to compute_tex (1 = flat)
MaxDepth == 2
\* the same two bounds for the resolved bundles handed to flatten_uniforms alone
FlatMaxHolders == 3
FlatMaxDepth == 3

----------------------------------------------------------------------------
(* Uniform value model: def_shader_uniform_types! *)

\* SnoozyRef<T>: a handle; `ref` is what the asset graph computes for it
SnoozyRef(x) == [ref |-> x]

\* Texture { key: TextureKey { width, height, .. }, view, image, .. }
Texture(id, w, h) == [image |-> id, view |-> id, key |-> [width |-> w, height |-> h]]

Float32(x) == [kind |-> "Float32", v |-> x]
Vec4(x) == [kind |-> "Vec4", v |-> x]
Int32(x) == [kind |-> "Int32", v |-> x]
Bundle(b) == [kind |-> "Bundle", v |-> b]
Float32Asset(x) == [kind |-> "Float32Asset", v |-> x]
TextureAsset(x) == [kind |-> "TextureAsset", v |-> x]
BundleAsset(x) == [kind |-> "BundleAsset", v |-> x]

BundleKinds == {"Bundle", "BundleAsset"}
AssetKinds == {"Float32Asset", "TextureAsset", "BundleAsset"}

\* ShaderUniformHolder / ResolvedShaderUniformHolder (shallow_hash left out:
\* nothing below reads it)
Holder(n, val) == [name |-> n, value |-> val]

----------------------------------------------------------------------------
(* Inputs *)

Names == {"a", "outputTex"}
BundleNames == {"m"}
AssetTexture == Texture(1, 64, 32)
OtherTexture == Texture(3, 16, 128)

\* the non-bundle values a caller's holder carries (unresolved)
LeafValues == {Float32(1), Float32Asset(SnoozyRef(2)), TextureAsset(SnoozyRef(AssetTexture))}
LeafHolders == {Holder(n, val) : n \in Names, val \in LeafValues}

\* the bundle a bundle-valued holder's value stands for
Inner(value) == IF value.kind = "BundleAsset" THEN value.v.ref ELSE value.v

RECURSIVE Size(_)
\* number of holders of a bundle, all levels together
Size(b) ==
    IF b = <<>> THEN 0
    ELSE 1 + (IF Head(b).value.kind \in BundleKinds THEN Size(Inner(Head(b).value)) ELSE 0)
           + Size(Tail(b))

RECURSIVE Bundles(_, _, _)
\* every ShaderUniformBundle of at most n holders and at most d levels whose
\* non-bundle holders are taken from leaves
Bundles(leaves, n, d) ==
    IF n = 0 \/ d = 0 THEN {<<>>}
    ELSE {<<>>}
         \cup {<<h>> \o rest : h \in leaves, rest \in Bundles(leaves, n - 1, d)}
         \cup UNION {
                UNION {
                  {<<Holder(nm, Bundle(inner))>> \o rest :
                      rest \in Bundles(leaves, n - 1 - Size(inner), d)}
                  \cup
                  {<<Holder(nm, BundleAsset(SnoozyRef(inner)))>> \o rest :
                      rest \in Bundles(leaves, n - 1 - Size(inner), d)}
                  : inner \in Bundles(leaves, n - 1, d - 1)}
                : nm \in BundleNames}

CallerBundles == Bundles(LeafHolders, MaxHolders, MaxDepth)
TextureKeys == {[width |-> 1024, height |-> 768], [width |-> 1023, height |-> 767]}

----------------------------------------------------------------------------
(* Resolution of a value with no failure: what ShaderUniformValue::resolve  *)
(* returns when every ctx.get succeeds                                     *)

RECURSIVE ResolvedValue(_), ResolvedBundle(_)
ResolvedValue(value) ==
    CASE value.kind = "Bundle" -> Bundle(ResolvedBundle(value.v))
      [] value.kind = "BundleAsset" -> BundleAsset(ResolvedBundle(value.v.ref))
      [] value.kind \in {"Float32Asset", "TextureAsset"} -> [kind |-> value.kind, v |-> value.v.ref]
      [] OTHER -> value

ResolvedBundle(b) ==
    [i \in 1..Len(b) |-> Holder(b[i].name, ResolvedValue(b[i].value))]

----------------------------------------------------------------------------
(* flatten_uniforms *)

SetUniform(n, val) == [type |-> "SetUniform", name |-> n, value |-> val]
EnterScope == [type |-> "EnterScope"]
LeaveScope == [type |-> "LeaveScope"]

\* an f32 that is the quotient of two integers, kept symbolic
F32(n, d) == [num |-> n, den |-> d]

tex_size_uniform(value) ==
    << F32(value.key.width, 1), F32(value.key.height, 1),
       F32(1, value.key.width), F32(1, value.key.height) >>

\* mutant of TextureAssetEvents: the texture first, its size second
TextureAssetEventsSwapped(name, value) ==
    << SetUniform(name, TextureAsset(value)),
       SetUniform(name \o "_size", Vec4(tex_size_uniform(value))) >>

\* the TextureAsset arm of the first loop
TextureAssetEvents(name, value) ==
    << SetUniform(name \o "_size", Vec4(tex_size_uniform(value))),
       SetUniform(name, TextureAsset(value)) >>

\* mutant of OtherEvents: the name is read after mem::replace emptied it
OtherEventsStaleName(name, value) == << SetUniform("", value) >>

\* the `_` arm of the first loop
OtherEvents(name, value) == << SetUniform(name, value) >>

\* one iteration of the first loop (non-bundle values)
FirstLoopStep(uniform) ==
    CASE uniform.value.kind \in BundleKinds -> <<>>
      [] uniform.value.kind = "TextureAsset" -> TextureAssetEvents(uniform.name, uniform.value.v)
      [] OTHER -> OtherEvents(uniform.name, uniform.value)

RECURSIVE FirstLoop(_)
FirstLoop(us) ==
    IF us = <<>> THEN <<>> ELSE FirstLoopStep(Head(us)) \o FirstLoop(Tail(us))

\* mutant of ScopeEvents: the scope is never left
ScopeEventsNoLeave(inner) == <<EnterScope>> \o inner

\* what the second loop delivers for one bundle-valued holder
ScopeEvents(inner) == <<EnterScope>> \o inner \o <<LeaveScope>>

RECURSIVE flatten_in_order(_)
\* mutant of flatten_uniforms: a single pass over the holders
flatten_in_order(us) ==
    IF us = <<>> THEN <<>>
    ELSE (IF Head(us).value.kind \in BundleKinds
          THEN ScopeEvents(flatten_in_order(Head(us).value.v))
          ELSE FirstLoopStep(Head(us)))
         \o flatten_in_order(Tail(us))

RECURSIVE flatten_uniforms(_), SecondLoop(_)
SecondLoop(us) ==
    IF us = <<>> THEN <<>>
    ELSE (IF Head(us).value.kind \in BundleKinds
          THEN ScopeEvents(flatten_uniforms(Head(us).value.v))
          ELSE <<>>)
         \o SecondLoop(Tail(us))

flatten_uniforms(us) == FirstLoop(us) \o SecondLoop(us)

----------------------------------------------------------------------------
(* The sink compute_tex hands to flatten_uniforms *)

EmptyMap == [n \in {} |-> 0]

\* mutant of Insert: an entry already present is kept
InsertIfAbsent(map, name, value) ==
    [n \in DOMAIN map \cup {name} |-> IF n \in DOMAIN map THEN map[n] ELSE value]

\* HashMap::insert
Insert(map, name, value) ==
    [n \in DOMAIN map \cup {name} |-> IF n = name THEN value ELSE map[n]]

Sink(map, e) ==
    IF e.type = "SetUniform" THEN Insert(map, e.name, e.value) ELSE map

RECURSIVE Drain(_, _)
Drain(map, evs) ==
    IF evs = <<>> THEN map ELSE Drain(Sink(map, Head(evs)), Tail(evs))

----------------------------------------------------------------------------
(* Shader reflection (spirv_reflect::ShaderModule) and ComputeShader *)

Member(n, off, sz) == [name |-> n, absolute_offset |-> off, size |-> sz]
UniformBufferBinding(idx, n, blk) ==
    [binding |-> idx, descriptor_type |-> "UniformBuffer", name |-> n, count |-> 1, block |-> blk]
NoBlock == [size |-> 0, members |-> <<>>]
StorageImageBinding(idx, n) ==
    [binding |-> idx, descriptor_type |-> "StorageImage", name |-> n, count |-> 1, block |-> NoBlock]
SamplerBinding(idx, n) ==
    [binding |-> idx, descriptor_type |-> "Sampler", name |-> n, count |-> 1, block |-> NoBlock]

\* refl.enumerate_descriptor_sets(Some("main"))
enumerate_descriptor_sets(refl) ==
    IF refl.enumerate_ok THEN [ok |-> TRUE, sets |-> refl.sets]
    ELSE [ok |-> FALSE, sets |-> <<>>]

LayoutBinding(b, ty) == [binding |-> b.binding, descriptor_type |-> ty, descriptor_count |-> b.count]

RECURSIVE LayoutBindingsStatic(_)
\* mutant of LayoutBindings: a uniform block gets a static UNIFORM_BUFFER entry
LayoutBindingsStatic(bs) ==
    IF bs = <<>> THEN <<>>
    ELSE (CASE Head(bs).descriptor_type = "UniformBuffer" ->
                  <<LayoutBinding(Head(bs), "UNIFORM_BUFFER")>>
            [] Head(bs).descriptor_type = "StorageImage" ->
                  <<LayoutBinding(Head(bs), "STORAGE_IMAGE")>>
            [] OTHER -> <<>>)
         \o LayoutBindingsStatic(Tail(bs))

RECURSIVE LayoutBindings(_)
\* the inner loop of generate_descriptor_set_layouts
LayoutBindings(bs) ==
    IF bs = <<>> THEN <<>>
    ELSE (CASE Head(bs).descriptor_type = "UniformBuffer" ->
                  <<LayoutBinding(Head(bs), "UNIFORM_BUFFER_DYNAMIC")>>
            [] Head(bs).descriptor_type = "StorageImage" ->
                  <<LayoutBinding(Head(bs), "STORAGE_IMAGE")>>
            [] OTHER -> <<>>)
         \o LayoutBindings(Tail(bs))

generate_descriptor_set_layouts(refl) ==
    LET e == enumerate_descriptor_sets(refl) IN
    IF ~e.ok THEN [ok |-> FALSE, layouts |-> <<>>]
    ELSE [ok |-> TRUE,
          layouts |-> [i \in 1..Len(e.sets) |-> LayoutBindings(e.sets[i].bindings)]]

\* load_cs: reflect, build the layouts and the pipeline; a reflection error
\* fails the load
load_cs(n, refl) ==
    LET l == generate_descriptor_set_layouts(refl) IN
    [ok |-> l.ok,
     shader |-> [name |-> n, pipeline |-> n, spirv_reflection |-> refl,
                 descriptor_set_layouts |-> l.layouts]]

ParamsBlock ==
    [size |-> 32, members |-> <<Member("a", 0, 4), Member("outputTex_size", 16, 16)>>]
WideBlock ==
    [size |-> 16, members |-> <<Member("a", 0, 16)>>]

ShaderModules ==
    { [name |-> "blit", enumerate_ok |-> TRUE,
       sets |-> << [bindings |-> <<StorageImageBinding(0, "outputTex")>>] >>],
      [name |-> "params", enumerate_ok |-> TRUE,
       sets |-> << [bindings |-> << UniformBufferBinding(0, "params", ParamsBlock),
                                   StorageImageBinding(1, "outputTex"),
                                   SamplerBinding(2, "linear") >>] >>],
      [name |-> "wide", enumerate_ok |-> TRUE,
       sets |-> << [bindings |-> << StorageImageBinding(0, "outputTex"),
                                   UniformBufferBinding(1, "wide", WideBlock) >>] >>],
      [name |-> "broken", enumerate_ok |-> FALSE, sets |-> <<>>] }

\* the shaders ctx.get(cs) can hand to compute_tex: those load_cs built
Shaders == {load_cs(m.name, m).shader : m \in {x \in ShaderModules : load_cs(x.name, x).ok}}

NoShader == load_cs("", [name |-> "", enumerate_ok |-> TRUE, sets |-> <<>>]).shader
NoTexture == Texture(0, 0, 0)

----------------------------------------------------------------------------
(* The per-frame uniform-buffer arena: vk_frame().uniforms *)

\* bytes the arena can hand out in one frame
ArenaCapacity == 48

\* uniforms.allocate(size): the region's offset, or None when the arena is full
Allocate(a, size) ==
    IF a.used + size <= ArenaCapacity
    THEN [ok |-> TRUE, offset |-> a.used, arena |-> [used |-> a.used + size]]
    ELSE [ok |-> FALSE, offset |-> 0, arena |-> a]

----------------------------------------------------------------------------
(* update_descriptor_sets *)

\* a byte of the region that nothing wrote
Uninit == [of |-> F32(0, 0), byte |-> -1]

\* mutant of ValueBytes: an Int32 is copied like a float
ValueBytesWithInt32(value) ==
    CASE value.kind \in {"Float32", "Float32Asset", "Int32"} ->
             [ok |-> TRUE, bytes |-> [i \in 1..4 |-> [of |-> F32(value.v, 1), byte |-> i - 1]]]
      [] value.kind = "Vec4" ->
             [ok |-> TRUE,
              bytes |-> [i \in 1..16 |-> [of |-> value.v[((i - 1) \div 4) + 1],
                                          byte |-> (i - 1) % 4]]]
      [] OTHER -> [ok |-> FALSE, bytes |-> <<>>]

\* f32::to_ne_bytes, and the 16 bytes behind &value.0 of a Vec4
ValueBytes(value) ==
    CASE value.kind \in {"Float32", "Float32Asset"} ->
             [ok |-> TRUE, bytes |-> [i \in 1..4 |-> [of |-> F32(value.v, 1), byte |-> i - 1]]]
      [] value.kind = "Vec4" ->
             [ok |-> TRUE,
              bytes |-> [i \in 1..16 |-> [of |-> value.v[((i - 1) \div 4) + 1],
                                          byte |-> (i - 1) % 4]]]
      [] OTHER -> [ok |-> FALSE, bytes |-> <<>>]

\* mutant of WriteMember: the bytes go to the start of the region
WriteMemberAtZero(buf, member, map) ==
    IF buf.panic \/ member.name \notin DOMAIN map THEN buf
    ELSE LET src == ValueBytes(map[member.name]) IN
         IF member.size > Len(buf.contents) \/ ~src.ok \/ Len(src.bytes) # member.size
         THEN [buf EXCEPT !.panic = TRUE]
         ELSE [buf EXCEPT !.contents =
                  [i \in 1..Len(buf.contents) |->
                      IF i <= member.size THEN src.bytes[i] ELSE buf.contents[i]]]

\* one iteration of the member loop on buffer_contents (0-based offsets kept in
\* a 1-based sequence); panics: slice out of range, copy_from_slice length
\* mismatch, unimplemented!()
WriteMember(buf, member, map) ==
    IF buf.panic \/ member.name \notin DOMAIN map THEN buf
    ELSE LET src == ValueBytes(map[member.name])
             lo == member.absolute_offset
             hi == member.absolute_offset + member.size
         IN  IF hi > Len(buf.contents) \/ ~src.ok \/ Len(src.bytes) # member.size
             THEN [buf EXCEPT !.panic = TRUE]
             ELSE [buf EXCEPT !.contents =
                      [i \in 1..Len(buf.contents) |->
                          IF lo < i /\ i <= hi THEN src.bytes[i - lo] ELSE buf.contents[i]]]

RECURSIVE WriteMembersByMap(_, _, _)
\* mutant of WriteMembers: a map entry that no member of the block consumed is
\* a fault
WriteMembersByMap(buf, members, map) ==
    IF members = <<>>
    THEN (IF DOMAIN map = {} THEN buf ELSE [buf EXCEPT !.panic = TRUE])
    ELSE WriteMembersByMap(WriteMember(buf, Head(members), map), Tail(members),
                           [n \in DOMAIN map \ {Head(members).name} |-> map[n]])

RECURSIVE WriteMembers(_, _, _)
WriteMembers(buf, members, map) ==
    IF members = <<>> THEN buf
    ELSE WriteMembers(WriteMember(buf, Head(members), map), Tail(members), map)

\* the write of a uniform block: buffer_info names the arena's buffer and the
\* block's size (its offset is left at 0); region is the arena region the
\* allocation returned, with the bytes the member loop left in it
BufferWrite(ds, binding, offset, contents) ==
    [dst_set |-> ds, dst_binding |-> binding.binding, dst_array_element |-> 0,
     descriptor_type |-> "UNIFORM_BUFFER_DYNAMIC",
     info |-> [buffer |-> "uniforms", offset |-> 0, range |-> binding.block.size],
     region |-> [offset |-> offset, contents |-> contents]]

\* mutant of ImageWrite: the write is typed as a sampled image
ImageWriteSampled(ds, binding, tex) ==
    [dst_set |-> ds, dst_binding |-> binding.binding, dst_array_element |-> 0,
     descriptor_type |-> "SAMPLED_IMAGE",
     info |-> [image_layout |-> "GENERAL", image_view |-> tex.view]]

ImageWrite(ds, binding, tex) ==
    [dst_set |-> ds, dst_binding |-> binding.binding, dst_array_element |-> 0,
     descriptor_type |-> "STORAGE_IMAGE",
     info |-> [image_layout |-> "GENERAL", image_view |-> tex.view]]

\* mutant of BindingStep: a block none of whose members is in the map gets no
\* dynamic offset
BindingStepOffsetIfWritten(st, ds, binding, map) ==
    IF st.status # "run" THEN st
    ELSE CASE binding.descriptor_type = "UniformBuffer" ->
                LET al == Allocate(st.arena, binding.block.size) IN
                IF ~al.ok THEN [st EXCEPT !.status = "panic", !.why = "arena"]
                ELSE LET buf == WriteMembers(
                                  [panic |-> FALSE,
                                   contents |-> [i \in 1..binding.block.size |-> Uninit]],
                                  binding.block.members, map)
                         named == \E j \in 1..Len(binding.block.members) :
                                      binding.block.members[j].name \in DOMAIN map
                     IN  IF buf.panic
                         THEN [st EXCEPT !.status = "panic", !.why = "member",
                                         !.arena = al.arena]
                         ELSE [st EXCEPT
                                 !.arena = al.arena,
                                 !.ds_offsets = IF named THEN Append(@, al.offset) ELSE @,
                                 !.ds_writes = Append(@, BufferWrite(ds, binding, al.offset,
                                                                     buf.contents))]
           [] binding.descriptor_type = "StorageImage" ->
                IF binding.name \in DOMAIN map /\ map[binding.name].kind = "TextureAsset"
                THEN [st EXCEPT !.ds_writes = Append(@, ImageWrite(ds, binding,
                                                                  map[binding.name].v))]
                ELSE st
           [] OTHER -> st

\* the body of the binding loop; st.status is "run" until a panic
BindingStep(st, ds, binding, map) ==
    IF st.status # "run" THEN st
    ELSE CASE binding.descriptor_type = "UniformBuffer" ->
                LET al == Allocate(st.arena, binding.block.size) IN
                IF ~al.ok THEN [st EXCEPT !.status = "panic", !.why = "arena"]
                ELSE LET buf == WriteMembers(
                                  [panic |-> FALSE,
                                   contents |-> [i \in 1..binding.block.size |-> Uninit]],
                                  binding.block.members, map)
                     IN  IF buf.panic
                         THEN [st EXCEPT !.status = "panic", !.why = "member",
                                         !.arena = al.arena]
                         ELSE [st EXCEPT
                                 !.arena = al.arena,
                                 !.ds_offsets = Append(@, al.offset),
                                 !.ds_writes = Append(@, BufferWrite(ds, binding, al.offset,
                                                                     buf.contents))]
           [] binding.descriptor_type = "StorageImage" ->
                IF binding.name \in DOMAIN map /\ map[binding.name].kind = "TextureAsset"
                THEN [st EXCEPT !.ds_writes = Append(@, ImageWrite(ds, binding,
                                                                  map[binding.name].v))]
                ELSE st
           [] OTHER -> st

RECURSIVE BindingLoopStopAtUnsupported(_, _, _, _)
\* mutant of BindingLoop: the scan of a set ends at its first unsupported binding
BindingLoopStopAtUnsupported(st, ds, bindings, map) ==
    IF bindings = <<>> THEN st
    ELSE IF Head(bindings).descriptor_type \notin {"UniformBuffer", "StorageImage"} THEN st
    ELSE BindingLoopStopAtUnsupported(BindingStep(st, ds, Head(bindings), map), ds,
                                      Tail(bindings), map)

RECURSIVE BindingLoop(_, _, _, _)
BindingLoop(st, ds, bindings, map) ==
    IF bindings = <<>> THEN st
    ELSE BindingLoop(BindingStep(st, ds, Head(bindings), map), ds, Tail(bindings), map)

RECURSIVE SetLoop(_, _, _, _)
\* the outer loop: every set of the reflection is written to descriptor_sets[0]
SetLoop(st, sets, dsets, map) ==
    IF sets = <<>> THEN st
    ELSE IF st.status # "run" THEN st
    ELSE IF dsets = <<>> THEN [st EXCEPT !.status = "panic", !.why = "index"]
    ELSE SetLoop(BindingLoop(st, dsets[1], Head(sets).bindings, map), Tail(sets), dsets, map)

\* mutant of DeviceUpdate: one device update per write
DeviceUpdatePerWrite(ds_writes) == [i \in 1..Len(ds_writes) |-> <<ds_writes[i]>>]

\* if !ds_writes.is_empty() { device.update_descriptor_sets(&ds_writes, &[]) }:
\* the batches handed to the device
DeviceUpdate(ds_writes) == IF ds_writes # <<>> THEN <<ds_writes>> ELSE <<>>

\* status "ok": Ok(ds_offsets); "err": Err(&str); "panic": the thread panicked.
\* updates: the batches given to device.update_descriptor_sets
update_descriptor_sets(refl, dsets, map, a) ==
    LET e == enumerate_descriptor_sets(refl)
        st0 == [status |-> "run", why |-> "", arena |-> a, ds_offsets |-> <<>>,
                ds_writes |-> <<>>]
    IN  IF ~e.ok
        THEN [status |-> "err", why |-> "reflection", arena |-> a, ds_offsets |-> <<>>,
              updates |-> <<>>]
        ELSE LET st == SetLoop(st0, e.sets, dsets, map) IN
             IF st.status = "panic"
             THEN [status |-> "panic", why |-> st.why, arena |-> st.arena,
                   ds_offsets |-> <<>>, updates |-> <<>>]
             ELSE [status |-> "ok", why |-> "", arena |-> st.arena,
                   ds_offsets |-> st.ds_offsets,
                   updates |-> DeviceUpdate(st.ds_writes)]

----------------------------------------------------------------------------
(* resolve: one spawned task per holder, joined by try_join_all *)

NoHolder == Holder("", Int32(0))
NoTasks == [p \in {} |-> 0]

RECURSIVE HolderAt(_, _)
\* the caller's holder at path p (indices from the top level down)
HolderAt(b, p) ==
    IF Len(p) = 1 THEN b[p[1]] ELSE HolderAt(Inner(b[p[1]].value), Tail(p))

\* resolve(ctx, b) called by the task at path p (<<>>: by compute_tex):
\* spawn_with_handle for every holder of b
Spawned(p, b) ==
    [q \in {p \o <<i>> : i \in 1..Len(b)} |-> [st |-> "spawned", out |-> NoHolder]]

ChildSlots(p, n) == [i \in 1..n |-> tasks[p \o <<i>>]]

IsUnder(q, p) == Len(q) > Len(p) /\ SubSeq(q, 1, Len(p)) = p

\* indices of the children of p in the order their tasks completed
ChildOrder(p) ==
    LET IsChild(q) == Len(q) = Len(p) + 1 /\ IsUnder(q, p)
        done == SelectSeq(completed, IsChild)
    IN  [i \in 1..Len(done) |-> done[i][Len(p) + 1]]

\* the try_join_all of p is over: its handles are dropped, its tasks are no
\* longer observed
Dropped(t, p) == [q \in {x \in DOMAIN t : ~IsUnder(x, p)} |-> t[q]]
Forgotten(c, p) == LET Kept(q) == ~IsUnder(q, p) IN SelectSeq(c, Kept)

\* history: the joins whose tasks (two or more) completed in exact reverse order
InReverse(order) ==
    Len(order) >= 2 /\ \A i \in 1..Len(order) : order[i] = Len(order) + 1 - i
Reversed(p) == IF InReverse(ChildOrder(p)) THEN reversed \cup {p} ELSE reversed

\* mutant of JoinAll: outputs collected as the tasks complete
JoinAllAsCompleted(slots, order) == [i \in 1..Len(order) |-> slots[order[i]].out]

\* try_join_all's Ok value: the outputs in the order the futures were given
JoinAll(slots, order) == [i \in 1..Len(slots) |-> slots[i].out]

\* mutant of JoinReady: a failed task counts as finished
JoinSettled(slots) == \A i \in 1..Len(slots) : slots[i].st \in {"done", "failed"}

\* try_join_all resolves to Ok once every future has resolved to Ok
JoinReady(slots) == \A i \in 1..Len(slots) : slots[i].st = "done"

\* try_join_all resolves to Err as soon as one future has resolved to Err
JoinFailed(slots) == \E i \in 1..Len(slots) : slots[i].st = "failed"

Running(p) == pc = "join" /\ p \in DOMAIN tasks

\* a literal value: (*v).clone()
TaskLiteral(p) ==
    /\ Running(p) /\ tasks[p].st = "spawned"
    /\ LET h == HolderAt(bundle, p) IN
       /\ h.value.kind \notin AssetKinds \cup BundleKinds
       /\ tasks' = [tasks EXCEPT ![p] = [st |-> "done", out |-> Holder(h.name, h.value)]]
    /\ completed' = Append(completed, p)
    /\ UNCHANGED <<args, other_pc, pc, output_tex, cs, failed_any, reversed, flatVars, gpuVars,
                   reports, result>>

\* an asset value whose ctx.get(v).await succeeds: (*got).clone()
TaskAssetOk(p) ==
    /\ Running(p) /\ tasks[p].st = "spawned"
    /\ LET h == HolderAt(bundle, p) IN
       /\ h.value.kind \in AssetKinds \ BundleKinds
       /\ tasks' = [tasks EXCEPT ![p] =
                      [st |-> "done",
                       out |-> Holder(h.name, [kind |-> h.value.kind, v |-> h.value.v.ref])]]
    /\ completed' = Append(completed, p)
    /\ UNCHANGED <<args, other_pc, pc, output_tex, cs, failed_any, reversed, flatVars, gpuVars,
                   reports, result>>

\* an asset value (BundleAsset too) whose ctx.get(v).await? fails
TaskAssetErr(p) ==
    /\ Running(p) /\ tasks[p].st = "spawned"
    /\ HolderAt(bundle, p).value.kind \in AssetKinds
    /\ tasks' = [tasks EXCEPT ![p].st = "failed"]
    /\ failed_any' = TRUE
    /\ UNCHANGED <<args, other_pc, pc, output_tex, cs, completed, reversed, flatVars, gpuVars,
                   reports, result>>

\* a Bundle, or a BundleAsset whose ctx.get succeeded: the nested resolve()
\* spawns the children and awaits their join
TaskBundleSpawn(p) ==
    /\ Running(p) /\ tasks[p].st = "spawned"
    /\ LET h == HolderAt(bundle, p) IN
       /\ h.value.kind \in BundleKinds
       /\ tasks' = [tasks EXCEPT ![p].st = "joining"] @@ Spawned(p, Inner(h.value))
    /\ UNCHANGED <<args, other_pc, pc, output_tex, cs, completed, failed_any, reversed, flatVars,
                   gpuVars, reports, result>>

\* the nested try_join_all resolved to Ok
TaskJoinOk(p) ==
    /\ Running(p) /\ tasks[p].st = "joining"
    /\ LET h == HolderAt(bundle, p)
           slots == ChildSlots(p, Len(Inner(h.value)))
       IN  /\ JoinReady(slots)
           /\ tasks' = Dropped([tasks EXCEPT ![p] =
                          [st |-> "done",
                           out |-> Holder(h.name, [kind |-> h.value.kind,
                                                   v |-> JoinAll(slots, ChildOrder(p))])]], p)
    /\ completed' = Append(Forgotten(completed, p), p)
    /\ reversed' = Reversed(p)
    /\ UNCHANGED <<args, other_pc, pc, output_tex, cs, failed_any, flatVars, gpuVars, reports, result>>

\* the nested try_join_all resolved to Err: resolve(..).await? fails the task
TaskJoinErr(p) ==
    /\ Running(p) /\ tasks[p].st = "joining"
    /\ JoinFailed(ChildSlots(p, Len(Inner(HolderAt(bundle, p).value))))
    /\ tasks' = Dropped([tasks EXCEPT ![p].st = "failed"], p)
    /\ completed' = Forgotten(completed, p)
    /\ UNCHANGED <<args, other_pc, pc, output_tex, cs, failed_any, reversed, flatVars, gpuVars,
                   reports, result>>

----------------------------------------------------------------------------
(* compute_tex *)

NoResult == [tag |-> "None", why |-> "", tex |-> NoTexture]
Ok(tex) == [tag |-> "Ok", why |-> "", tex |-> tex]
Err(why) == [tag |-> "Err", why |-> why, tex |-> NoTexture]
Panic(why) == [tag |-> "Panic", why |-> why, tex |-> NoTexture]

\* backend::texture::create_texture(*key): a fresh image of the key's size
create_texture(k) == Texture(2, k.width, k.height)

\* device.allocate_descriptor_sets: one set per layout
allocate_descriptor_sets(layouts) ==
    [i \in 1..Len(layouts) |-> [set |-> i, layout |-> layouts[i]]]

ImageBarrierCmd(tex) ==
    [cmd |-> "image_barrier", image |-> tex.image, prev |-> "Nothing",
     next |-> "ComputeShaderWrite", discard |-> TRUE]

BindPipelineCmd(shader) ==
    [cmd |-> "bind_pipeline", bind_point |-> "COMPUTE", pipeline |-> shader.pipeline]

\* mutant of BindDescriptorSetsCmd: no dynamic offsets are passed
BindDescriptorSetsCmdNoOffsets(shader, sets, offsets) ==
    [cmd |-> "bind_descriptor_sets", bind_point |-> "COMPUTE", layout |-> shader.pipeline,
     first_set |-> 0, descriptor_sets |-> sets, dynamic_offsets |-> <<>>]

BindDescriptorSetsCmd(shader, sets, offsets) ==
    [cmd |-> "bind_descriptor_sets", bind_point |-> "COMPUTE", layout |-> shader.pipeline,
     first_set |-> 0, descriptor_sets |-> sets, dynamic_offsets |-> offsets]

\* device.cmd_dispatch(cb, dispatch_size.0 / 8, dispatch_size.1 / 8, 1)
DispatchCmd(k) ==
    [cmd |-> "dispatch", x |-> k.width \div 8, y |-> k.height \div 8, z |-> 1]

\* let output_tex = backend::texture::create_texture(*key);
Begin ==
    /\ pc = "start"
    /\ output_tex' = create_texture(key)
    /\ pc' = "get_cs"
    /\ UNCHANGED <<args, other_pc, cs, resolveVars, flatVars, gpuVars, reports, result>>

\* ctx.get(cs).await succeeded; resolve(ctx, uniforms.clone()) spawns one task
\* per top-level holder
GetShaderOk ==
    /\ pc = "get_cs"
    /\ \E shader \in Shaders : cs' = shader
    /\ tasks' = Spawned(<<>>, bundle)
    /\ pc' = "join"
    /\ UNCHANGED <<args, other_pc, output_tex, completed, failed_any, reversed, flatVars, gpuVars,
                   reports, result>>

\* ctx.get(cs).await? failed
GetShaderErr ==
    /\ pc = "get_cs"
    /\ result' = Err("shader")
    /\ pc' = "done"
    /\ UNCHANGED <<args, other_pc, output_tex, cs, resolveVars, flatVars, gpuVars, reports>>

\* resolve(..).await returned Ok
ResolveOk ==
    /\ pc = "join"
    /\ LET slots == ChildSlots(<<>>, Len(bundle)) IN
       /\ JoinReady(slots)
       /\ uniforms' = JoinAll(slots, ChildOrder(<<>>))
    /\ tasks' = NoTasks
    /\ completed' = <<>>
    /\ reversed' = Reversed(<<>>)
    /\ pc' = "flatten"
    /\ UNCHANGED <<args, other_pc, output_tex, cs, failed_any, events, flattened_uniforms, gpuVars,
                   reports, result>>

\* resolve(..).await? returned Err
ResolveErr ==
    /\ pc = "join"
    /\ JoinFailed(ChildSlots(<<>>, Len(bundle)))
    /\ tasks' = NoTasks
    /\ completed' = <<>>
    /\ result' = Err("resolve")
    /\ pc' = "done"
    /\ UNCHANGED <<args, other_pc, output_tex, cs, failed_any, reversed, flatVars, gpuVars, reports>>

\* mutant of Flatten: the bundle is flattened before the output holder is pushed
FlattenBeforeOutput ==
    /\ pc = "flatten"
    /\ events' = flatten_uniforms(uniforms)
    /\ flattened_uniforms' = Drain(EmptyMap, events')
    /\ uniforms' = Append(uniforms, Holder("outputTex", TextureAsset(output_tex)))
    /\ pc' = "lock_pool"
    /\ UNCHANGED <<args, other_pc, output_tex, cs, resolveVars, gpuVars, reports, result>>

\* uniforms.push(outputTex); flatten_uniforms(uniforms, sink)
Flatten ==
    /\ pc = "flatten"
    /\ uniforms' = Append(uniforms, Holder("outputTex", TextureAsset(output_tex)))
    /\ events' = flatten_uniforms(uniforms')
    /\ flattened_uniforms' = Drain(EmptyMap, events')
    /\ pc' = "lock_pool"
    /\ UNCHANGED <<args, other_pc, output_tex, cs, resolveVars, gpuVars, reports, result>>

\* let descriptor_pool = *vk_frame.descriptor_pool.lock().unwrap();
\* the guard is a temporary of this statement and is dropped at its end
LockDescriptorPool ==
    /\ pc = "lock_pool"
    /\ descriptor_pool_mutex = "free"
    /\ descriptor_pool_mutex' = "free"
    /\ pc' = "allocate"
    /\ UNCHANGED <<args, other_pc, output_tex, cs, resolveVars, flatVars, command_buffer_mutex,
                   descriptor_sets, dynamic_offsets, arena, device_updates, commands,
                   reports, result>>

\* device.allocate_descriptor_sets(..) succeeded
AllocateOk ==
    /\ pc = "allocate"
    /\ descriptor_sets' = allocate_descriptor_sets(cs.descriptor_set_layouts)
    /\ pc' = "update"
    /\ UNCHANGED <<args, other_pc, output_tex, cs, resolveVars, flatVars, descriptor_pool_mutex,
                   command_buffer_mutex, dynamic_offsets, arena, device_updates, commands,
                   reports, result>>

\* device.allocate_descriptor_sets(..)? failed
AllocateErr ==
    /\ pc = "allocate"
    /\ result' = Err("allocate")
    /\ pc' = "done"
    /\ UNCHANGED <<args, other_pc, output_tex, cs, resolveVars, flatVars, gpuVars, reports>>

Binder == update_descriptor_sets(cs.spirv_reflection, descriptor_sets, flattened_uniforms, arena)

\* update_descriptor_sets(..).unwrap() gave the offsets
UpdateOk ==
    /\ pc = "update"
    /\ Binder.status = "ok"
    /\ dynamic_offsets' = Binder.ds_offsets
    /\ device_updates' = device_updates \o Binder.updates
    /\ arena' = Binder.arena
    /\ pc' = "lock_cb"
    /\ UNCHANGED <<args, other_pc, output_tex, cs, resolveVars, flatVars, descriptor_pool_mutex,
                   command_buffer_mutex, descriptor_sets, commands, reports, result>>

\* update_descriptor_sets panicked, or returned Err and .unwrap() panicked
UpdatePanic ==
    /\ pc = "update"
    /\ Binder.status \in {"panic", "err"}
    /\ arena' = Binder.arena
    /\ result' = Panic(Binder.why)
    /\ pc' = "done"
    /\ UNCHANGED <<args, other_pc, output_tex, cs, resolveVars, flatVars, descriptor_pool_mutex,
                   command_buffer_mutex, descriptor_sets, dynamic_offsets, device_updates,
                   commands, reports>>

\* mutant of LockCommandBuffer: the guard is dropped at the end of the
\* statement, like the descriptor pool's
LockCommandBufferTemporary ==
    /\ pc = "lock_cb"
    /\ command_buffer_mutex = "free"
    /\ command_buffer_mutex' = "free"
    /\ pc' = "image_barrier"
    /\ UNCHANGED <<args, other_pc, output_tex, cs, resolveVars, flatVars,
                   descriptor_pool_mutex, descriptor_sets, dynamic_offsets, arena,
                   device_updates, commands, reports, result>>

\* let cb = vk_frame.command_buffer.lock().unwrap(); the guard lives to the end
\* of compute_tex
LockCommandBuffer ==
    /\ pc = "lock_cb"
    /\ command_buffer_mutex = "free"
    /\ command_buffer_mutex' = "held"
    /\ pc' = "image_barrier"
    /\ UNCHANGED <<args, other_pc, output_tex, cs, resolveVars, flatVars, descriptor_pool_mutex,
                   descriptor_sets, dynamic_offsets, arena, device_updates, commands,
                   reports, result>>

Record(at, command, then) ==
    /\ pc = at
    /\ commands' = Append(commands, command)
    /\ pc' = then
    /\ UNCHANGED <<args, other_pc, output_tex, cs, resolveVars, flatVars, descriptor_pool_mutex,
                   command_buffer_mutex, descriptor_sets, dynamic_offsets, arena,
                   device_updates, reports, result>>

RecordImageBarrier == Record("image_barrier", ImageBarrierCmd(output_tex), "bind_pipeline")
CmdBindPipeline == Record("bind_pipeline", BindPipelineCmd(cs), "bind_descriptor_sets")
CmdBindDescriptorSets ==
    Record("bind_descriptor_sets",
           BindDescriptorSetsCmd(cs, descriptor_sets, dynamic_offsets), "dispatch")
CmdDispatch == Record("dispatch", DispatchCmd(key), "report")

\* gpu_debugger::report_texture(&cs.name, output_tex.view); Ok(output_tex)
ReportTexture ==
    /\ pc = "report"
    /\ reports' = Append(reports, [name |-> cs.name, view |-> output_tex.view])
    /\ result' = Ok(output_tex)
    /\ command_buffer_mutex' = "free"
    /\ pc' = "done"
    /\ UNCHANGED <<args, other_pc, output_tex, cs, resolveVars, flatVars, descriptor_pool_mutex,
                   descriptor_sets, dynamic_offsets, arena, device_updates, commands>>

----------------------------------------------------------------------------
(* Specifications *)

\* the rest of the frame takes what is left of the arena before the binder
\* runs (nothing reads the arena earlier)
FrameFillsArena ==
    /\ pc = "update"
    /\ arena.used < ArenaCapacity
    /\ arena' = [used |-> ArenaCapacity]
    /\ UNCHANGED <<args, other_pc, pc, output_tex, cs, resolveVars, flatVars, descriptor_pool_mutex,
                   command_buffer_mutex, descriptor_sets, dynamic_offsets, device_updates,
                   commands, reports, result>>

Idle ==
    /\ output_tex = NoTexture /\ cs = NoShader
    /\ tasks = NoTasks /\ completed = <<>> /\ failed_any = FALSE /\ reversed = {}
    /\ events = <<>> /\ flattened_uniforms = EmptyMap
    /\ descriptor_pool_mutex = "free" /\ command_buffer_mutex = "free"
    /\ descriptor_sets = <<>> /\ dynamic_offsets = <<>>
    /\ device_updates = <<>> /\ commands = <<>> /\ reports = <<>>
    /\ other_pc = "idle"
    /\ result = NoResult

Init ==
    /\ key \in TextureKeys
    /\ bundle \in CallerBundles
    /\ arena = [used |-> 0]
    /\ uniforms = <<>>
    /\ pc = "start"
    /\ Idle

Next ==
    \/ Begin \/ GetShaderOk \/ GetShaderErr
    \/ \E p \in DOMAIN tasks : TaskLiteral(p)
    \/ \E p \in DOMAIN tasks : TaskAssetOk(p)
    \/ \E p \in DOMAIN tasks : TaskAssetErr(p)
    \/ \E p \in DOMAIN tasks : TaskBundleSpawn(p)
    \/ \E p \in DOMAIN tasks : TaskJoinOk(p)
    \/ \E p \in DOMAIN tasks : TaskJoinErr(p)
    \/ ResolveOk \/ ResolveErr
    \/ Flatten
    \/ LockDescriptorPool \/ AllocateOk \/ AllocateErr
    \/ FrameFillsArena \/ UpdateOk \/ UpdatePanic
    \/ LockCommandBuffer
    \/ RecordImageBarrier \/ CmdBindPipeline \/ CmdBindDescriptorSets \/ CmdDispatch
    \/ ReportTexture

Spec == Init /\ [][Next]_vars

\* flatten_uniforms and the sink alone, on every resolved bundle within the bounds
FlatLeafHolders ==
    LeafHolders \cup {Holder(n, TextureAsset(SnoozyRef(OtherTexture))) : n \in Names}
FlattenInputs ==
    {ResolvedBundle(b) : b \in Bundles(FlatLeafHolders, FlatMaxHolders, FlatMaxDepth)}

InitFlatten ==
    /\ key \in {[width |-> 8, height |-> 8]}
    /\ bundle = <<>>
    /\ arena = [used |-> 0]
    /\ uniforms \in FlattenInputs
    /\ pc = "flatten_only"
    /\ Idle

FlattenOnly ==
    /\ pc = "flatten_only"
    /\ events' = flatten_uniforms(uniforms)
    /\ flattened_uniforms' = Drain(EmptyMap, events')
    /\ pc' = "flattened"
    /\ UNCHANGED <<args, other_pc, output_tex, cs, resolveVars, uniforms, gpuVars, reports, result>>

NextFlatten == FlattenOnly

SpecFlatten == InitFlatten /\ [][NextFlatten]_vars

----------------------------------------------------------------------------
(* compute_tex from the binder call on, for every binding table and every    *)
(* flat caller bundle within the bounds                                      *)

\* bindings of the one descriptor set of a reflected module
BindMaxBindings == 2
\* holders of the caller's (flat) bundle
BindMaxHolders == 2

GlobalsBlock ==
    [size |-> 32, members |-> <<Member("x", 0, 4), Member("v", 16, 16)>>]
\* a block that declares v as a float and x as a vec2
OddBlock ==
    [size |-> 16, members |-> <<Member("v", 0, 4), Member("x", 8, 8)>>]

BindingsAt(idx) ==
    { UniformBufferBinding(idx, "globals", GlobalsBlock),
      UniformBufferBinding(idx, "odd", OddBlock),
      StorageImageBinding(idx, "outputTex"),
      StorageImageBinding(idx, "inputTex"),
      SamplerBinding(idx, "linear") }

RECURSIVE BindingTables(_)
\* the binding tables of at most n bindings, numbered from 0
BindingTables(n) ==
    IF n = 0 THEN {<<>>}
    ELSE LET shorter == BindingTables(n - 1) IN
         shorter \cup {Append(t, b) : t \in {x \in shorter : Len(x) = n - 1},
                                      b \in BindingsAt(n - 1)}

\* descriptor sets of a reflected module
BindMaxSets == 2

RECURSIVE SingleBindingSets(_)
\* the lists of two to n descriptor sets of one binding each
SingleBindingSets(n) ==
    IF n < 2 THEN {}
    ELSE {<< [bindings |-> <<a>>], [bindings |-> <<b>>] >> :
             a \in BindingsAt(0), b \in BindingsAt(0)}
         \cup {Append(ss, [bindings |-> <<b>>]) :
                  ss \in {x \in SingleBindingSets(n - 1) : Len(x) = n - 1},
                  b \in BindingsAt(0)}

BindModules ==
    {[name |-> "cs", enumerate_ok |-> TRUE, sets |-> << [bindings |-> t] >>] :
        t \in BindingTables(BindMaxBindings)}
    \cup {[name |-> "cs", enumerate_ok |-> TRUE, sets |-> ss] :
             ss \in SingleBindingSets(BindMaxSets)}

BindShaders == {load_cs(m.name, m).shader : m \in BindModules}

BindValues ==
    { Float32(1), Float32Asset(SnoozyRef(2)),
      Vec4(<< F32(5, 1), F32(6, 1), F32(7, 1), F32(8, 1) >>),
      Int32(7), TextureAsset(SnoozyRef(AssetTexture)) }

BindHolders ==
    {Holder(n, val) : n \in {"x", "v"}, val \in BindValues}
    \cup { Holder("inputTex", TextureAsset(SnoozyRef(AssetTexture))),
           Holder("inputTex", Float32(1)),
           Holder("unused", Int32(7)),
           Holder("unused", TextureAsset(SnoozyRef(OtherTexture))) }

RECURSIVE FlatBundles(_)
FlatBundles(n) ==
    IF n = 0 THEN {<<>>}
    ELSE LET shorter == FlatBundles(n - 1) IN
         shorter \cup {Append(b, h) : b \in {x \in shorter : Len(x) = n - 1},
                                      h \in BindHolders}

\* compute_tex about to call update_descriptor_sets: the shader is loaded, the
\* bundle resolved, the output holder pushed, the map built, the set allocated
InitBind ==
    /\ key \in {[width |-> 8, height |-> 8]}
    /\ bundle \in FlatBundles(BindMaxHolders)
    /\ output_tex = create_texture(key)
    /\ cs \in BindShaders
    /\ tasks = NoTasks /\ completed = <<>> /\ failed_any = FALSE /\ reversed = {}
    /\ uniforms = Append(ResolvedBundle(bundle),
                         Holder("outputTex", TextureAsset(output_tex)))
    /\ events = flatten_uniforms(uniforms)
    /\ flattened_uniforms = Drain(EmptyMap, events)
    /\ descriptor_pool_mutex = "free" /\ command_buffer_mutex = "free"
    /\ descriptor_sets = allocate_descriptor_sets(cs.descriptor_set_layouts)
    /\ dynamic_offsets = <<>>
    /\ arena \in {[used |-> 0], [used |-> 16]}
    /\ device_updates = <<>> /\ commands = <<>> /\ reports = <<>>
    /\ other_pc = "idle"
    /\ result = NoResult
    /\ pc = "update"

NextBind ==
    \/ UpdateOk \/ UpdatePanic
    \/ LockCommandBuffer
    \/ RecordImageBarrier \/ CmdBindPipeline \/ CmdBindDescriptorSets \/ CmdDispatch
    \/ ReportTexture

SpecBind == InitBind /\ [][NextBind]_vars

----------------------------------------------------------------------------
(* Two compute_tex invocations on one frame, both from their descriptor-pool   *)
(* section on                                                                  *)

\* holders of the caller's bundle
FrameMaxHolders == 1

\* the other invocation's
\*   let descriptor_pool = *vk_frame.descriptor_pool.lock().unwrap();
\* it waits for the mutex; its guard too is a temporary of the statement
OtherLockDescriptorPool ==
    /\ other_pc = "idle"
    /\ descriptor_pool_mutex = "free"
    /\ descriptor_pool_mutex' = "free"
    /\ other_pc' = "allocate"
    /\ UNCHANGED <<args, pc, output_tex, cs, resolveVars, flatVars, command_buffer_mutex,
                   descriptor_sets, dynamic_offsets, arena, device_updates, commands,
                   reports, result>>

\* what the other invocation works on: its own key, output texture, shader (one
\* storage image, no uniform block) and descriptor set
OtherKey == [width |-> 16, height |-> 16]
OtherOutputTex == Texture(4, OtherKey.width, OtherKey.height)
OtherShader ==
    load_cs("other", [name |-> "other", enumerate_ok |-> TRUE,
                      sets |-> << [bindings |-> <<StorageImageBinding(0, "outputTex")>>] >>]).shader
OtherDescriptorSets == << [set |-> 2, layout |-> OtherShader.descriptor_set_layouts[1]] >>

\* the other invocation's device.allocate_descriptor_sets(..) returned
OtherAllocated ==
    /\ other_pc = "allocate"
    /\ other_pc' = "update"
    /\ UNCHANGED <<args, pc, output_tex, cs, resolveVars, flatVars, gpuVars, reports,
                   result>>

\* the other invocation's update_descriptor_sets(..).unwrap() returned: it wrote
\* its own descriptor set and, having no uniform block, took nothing from the arena
OtherUpdated ==
    /\ other_pc = "update"
    /\ other_pc' = "lock_cb"
    /\ UNCHANGED <<args, pc, output_tex, cs, resolveVars, flatVars, gpuVars, reports,
                   result>>

\* the other invocation's let cb = vk_frame.command_buffer.lock().unwrap();
\* it waits for the mutex and keeps the guard to the end of compute_tex
OtherLockCommandBuffer ==
    /\ other_pc = "lock_cb"
    /\ command_buffer_mutex = "free"
    /\ command_buffer_mutex' = "held by other"
    /\ other_pc' = "image_barrier"
    /\ UNCHANGED <<args, pc, output_tex, cs, resolveVars, flatVars, descriptor_pool_mutex,
                   descriptor_sets, dynamic_offsets, arena, device_updates, commands,
                   reports, result>>

OtherRecord(at, command, then) ==
    /\ other_pc = at
    /\ commands' = Append(commands, command)
    /\ other_pc' = then
    /\ UNCHANGED <<args, pc, output_tex, cs, resolveVars, flatVars, descriptor_pool_mutex,
                   command_buffer_mutex, descriptor_sets, dynamic_offsets, arena,
                   device_updates, reports, result>>

OtherRecordImageBarrier ==
    OtherRecord("image_barrier", ImageBarrierCmd(OtherOutputTex), "bind_pipeline")
OtherCmdBindPipeline ==
    OtherRecord("bind_pipeline", BindPipelineCmd(OtherShader), "bind_descriptor_sets")
OtherCmdBindDescriptorSets ==
    OtherRecord("bind_descriptor_sets",
                BindDescriptorSetsCmd(OtherShader, OtherDescriptorSets, <<>>), "dispatch")
OtherCmdDispatch == OtherRecord("dispatch", DispatchCmd(OtherKey), "report")

\* the other invocation's report_texture and return: its guard is dropped
OtherReportTexture ==
    /\ other_pc = "report"
    /\ reports' = Append(reports, [name |-> OtherShader.name, view |-> OtherOutputTex.view])
    /\ command_buffer_mutex' = "free"
    /\ other_pc' = "done"
    /\ UNCHANGED <<args, pc, output_tex, cs, resolveVars, flatVars, descriptor_pool_mutex,
                   descriptor_sets, dynamic_offsets, arena, device_updates, commands,
                   result>>

\* compute_tex about to lock the descriptor pool: the shader is loaded, the
\* bundle resolved, the output holder pushed and the map built
InitFrame ==
    /\ key \in TextureKeys
    /\ bundle \in Bundles(LeafHolders, FrameMaxHolders, 1)
    /\ output_tex = create_texture(key)
    /\ cs \in Shaders
    /\ tasks = NoTasks /\ completed = <<>> /\ failed_any = FALSE /\ reversed = {}
    /\ uniforms = Append(ResolvedBundle(bundle),
                         Holder("outputTex", TextureAsset(output_tex)))
    /\ events = flatten_uniforms(uniforms)
    /\ flattened_uniforms = Drain(EmptyMap, events)
    /\ descriptor_pool_mutex = "free" /\ command_buffer_mutex = "free"
    /\ descriptor_sets = <<>> /\ dynamic_offsets = <<>>
    /\ arena = [used |-> 0]
    /\ device_updates = <<>> /\ commands = <<>> /\ reports = <<>>
    /\ other_pc = "idle"
    /\ result = NoResult
    /\ pc = "lock_pool"

NextFrame ==
    \/ LockDescriptorPool \/ AllocateOk \/ AllocateErr
    \/ OtherLockDescriptorPool \/ OtherAllocated \/ OtherUpdated
    \/ OtherLockCommandBuffer
    \/ OtherRecordImageBarrier \/ OtherCmdBindPipeline \/ OtherCmdBindDescriptorSets
    \/ OtherCmdDispatch
    \/ OtherReportTexture
    \/ FrameFillsArena \/ UpdateOk \/ UpdatePanic
    \/ LockCommandBuffer
    \/ RecordImageBarrier \/ CmdBindPipeline \/ CmdBindDescriptorSets \/ CmdDispatch
    \/ ReportTexture

SpecFrame == InitFrame /\ [][NextFrame]_vars

----------------------------------------------------------------------------
(* Properties of flatten_uniforms, checked under SpecFlatten *)

IsSet(e) == e.type = "SetUniform"
IsBundleHolder(h) == h.value.kind \in BundleKinds
IsLeafHolder(h) == h.value.kind \notin BundleKinds
Range(f) == {f[i] : i \in DOMAIN f}
Count(f, e) == Cardinality({i \in DOMAIN f : f[i] = e})

\* the events one non-bundle holder stands for
SizeEvent(n, tex) ==
    SetUniform(n \o "_size",
               Vec4(<< F32(tex.key.width, 1), F32(tex.key.height, 1),
                       F32(1, tex.key.width), F32(1, tex.key.height) >>))
HolderEvents(h) ==
    IF h.value.kind = "TextureAsset"
    THEN << SizeEvent(h.name, h.value.v), SetUniform(h.name, h.value) >>
    ELSE << SetUniform(h.name, h.value) >>

RECURSIVE ConcatEvents(_)
ConcatEvents(hs) ==
    IF hs = <<>> THEN <<>> ELSE HolderEvents(Head(hs)) \o ConcatEvents(Tail(hs))

\* number of open scopes when event i is delivered
Enters(evs, i) == Cardinality({j \in 1..i : evs[j].type = "EnterScope"})
Leaves(evs, i) == Cardinality({j \in 1..i : evs[j].type = "LeaveScope"})
DepthAt(evs, i) == Enters(evs, i - 1) - Leaves(evs, i - 1)

\* reading a stream back as levels: SetUniform*, then (EnterScope level LeaveScope)*
EndOfSets(evs, i) ==
    CHOOSE j \in i..(Len(evs) + 1) :
        /\ \A k \in i..(j - 1) : IsSet(evs[k])
        /\ j = Len(evs) + 1 \/ ~IsSet(evs[j])

RECURSIVE ParseLevel(_, _), ParseScopes(_, _)
ParseLevel(evs, i) ==
    LET j == EndOfSets(evs, i)
        sc == ParseScopes(evs, j)
    IN  [ok |-> sc.ok, sets |-> SubSeq(evs, i, j - 1), scopes |-> sc.scopes, next |-> sc.next]

ParseScopes(evs, j) ==
    IF j <= Len(evs) /\ evs[j].type = "EnterScope"
    THEN LET inner == ParseLevel(evs, j + 1) IN
         IF inner.ok /\ inner.next <= Len(evs) /\ evs[inner.next].type = "LeaveScope"
         THEN LET rest == ParseScopes(evs, inner.next + 1) IN
              [ok |-> rest.ok,
               scopes |-> <<[sets |-> inner.sets, scopes |-> inner.scopes]>> \o rest.scopes,
               next |-> rest.next]
         ELSE [ok |-> FALSE, scopes |-> <<>>, next |-> j]
    ELSE [ok |-> TRUE, scopes |-> <<>>, next |-> j]

RECURSIVE LevelMatches(_, _)
\* the level read back is the level of b: its non-bundle holders in input
\* order, then one scope per bundle-valued holder in input order
LevelMatches(level, b) ==
    LET nb == SelectSeq(b, IsLeafHolder)
        bs == SelectSeq(b, IsBundleHolder)
    IN  /\ level.sets = ConcatEvents(nb)
        /\ Len(level.scopes) = Len(bs)
        /\ \A i \in 1..Len(bs) : LevelMatches(level.scopes[i], bs[i].value.v)

RECURSIVE BundleHolderCount(_)
BundleHolderCount(b) ==
    IF b = <<>> THEN 0
    ELSE (IF IsBundleHolder(Head(b)) THEN 1 + BundleHolderCount(Head(b).value.v) ELSE 0)
         + BundleHolderCount(Tail(b))

RECURSIVE LeavesAtDepth(_, _)
\* the non-bundle holders of b that sit d bundles deep
LeavesAtDepth(b, d) ==
    IF b = <<>> THEN <<>>
    ELSE (IF IsBundleHolder(Head(b))
          THEN (IF d > 0 THEN LeavesAtDepth(Head(b).value.v, d - 1) ELSE <<>>)
          ELSE (IF d = 0 THEN <<Head(b)>> ELSE <<>>))
         \o LeavesAtDepth(Tail(b), d)

RECURSIVE AllLeaves(_)
\* the non-bundle holders of b, all levels
AllLeaves(b) ==
    IF b = <<>> THEN <<>>
    ELSE (IF IsBundleHolder(Head(b)) THEN AllLeaves(Head(b).value.v) ELSE <<Head(b)>>)
         \o AllLeaves(Tail(b))

Flattened == pc = "flattened"

\* C3: at every bundle level the SetUniform events of the level's non-bundle
\* holders come first, in input order, before the level's first EnterScope;
\* the bundle-valued holders follow in input order, each as EnterScope, the
\* nested level, LeaveScope.
C3_TwoPhaseOrder ==
    Flattened =>
        LET top == ParseLevel(events, 1) IN
        /\ top.ok
        /\ top.next = Len(events) + 1
        /\ LevelMatches(top, uniforms)

\* C3 witness: a non-bundle holder placed after a non-empty bundle was flattened
C3_Witness ==
    /\ Flattened
    /\ \E i, j \in 1..Len(uniforms) :
          /\ i < j
          /\ IsBundleHolder(uniforms[i]) /\ uniforms[i].value.v # <<>>
          /\ IsLeafHolder(uniforms[j])

\* C4: no prefix of the stream leaves more scopes than it entered, the stream
\* enters and leaves equally often, as often as there are bundle-valued holders
\* (all levels), and every SetUniform is delivered at the nesting depth of its
\* holder.
C4_ScopesBalanced ==
    Flattened =>
        /\ \A i \in 0..Len(events) : Enters(events, i) >= Leaves(events, i)
        /\ Enters(events, Len(events)) = Leaves(events, Len(events))
        /\ Enters(events, Len(events)) = BundleHolderCount(uniforms)
        /\ \A d \in 0..Len(events) :
              LET at == SelectSeq([i \in 1..Len(events) |->
                                      IF IsSet(events[i]) /\ DepthAt(events, i) = d
                                      THEN events[i] ELSE EnterScope], IsSet)
                  want == ConcatEvents(LeavesAtDepth(uniforms, d))
              IN  \A e \in Range(at) \cup Range(want) : Count(at, e) = Count(want, e)

\* C4 witness: a SetUniform delivered two scopes deep
C4_Witness ==
    /\ Flattened
    /\ \E i \in 1..Len(events) : IsSet(events[i]) /\ DepthAt(events, i) = 2

\* C5: for every texture-valued holder named t (any level) the stream holds
\* SetUniform(t_size, Vec4 of that texture's width and height) immediately
\* followed by SetUniform(t, that texture).
C5_SizeThenTexture ==
    Flattened =>
        /\ \A h \in Range(AllLeaves(uniforms)) :
              h.value.kind = "TextureAsset" =>
                 \E i \in 1..(Len(events) - 1) :
                    /\ events[i] = SizeEvent(h.name, h.value.v)
                    /\ events[i + 1] = SetUniform(h.name, h.value)
        /\ \A i \in 1..Len(events) :
              (IsSet(events[i]) /\ events[i].value.kind = "TextureAsset") =>
                 /\ i > 1
                 /\ events[i - 1] = SizeEvent(events[i].name, events[i].value.v)

\* C5 witness: two different textures were flattened, one of them nested
C5_Witness ==
    /\ Flattened
    /\ \E i, j \in 1..Len(events) :
          /\ IsSet(events[i]) /\ events[i].value = TextureAsset(AssetTexture)
          /\ IsSet(events[j]) /\ events[j].value = TextureAsset(OtherTexture)
          /\ DepthAt(events, j) >= 1

NoBundleNoTexture(b) ==
    \A i \in 1..Len(b) : b[i].value.kind \notin BundleKinds \cup {"TextureAsset"}

\* C6: one SetUniform per non-bundle holder with the holder's name and value,
\* one more (the size) per texture holder, none for a bundle-valued holder; N
\* literal holders give exactly their N SetUniform events in input order.
C6_OneSetPerHolder ==
    Flattened =>
        LET sets == SelectSeq(events, IsSet)
            leaves == AllLeaves(uniforms)
            textures == {i \in 1..Len(leaves) : leaves[i].value.kind = "TextureAsset"}
            want == ConcatEvents(leaves)
        IN  /\ Len(sets) = Len(leaves) + Cardinality(textures)
            /\ \A e \in Range(sets) \cup Range(want) : Count(sets, e) = Count(want, e)
            /\ \A i \in 1..Len(sets) : sets[i].value.kind \notin BundleKinds
            /\ NoBundleNoTexture(uniforms) =>
                  events = [i \in 1..Len(uniforms) |->
                               SetUniform(uniforms[i].name, uniforms[i].value)]

\* C6 witness: three literal holders, not all alike, were flattened
C6_Witness ==
    /\ Flattened
    /\ Len(uniforms) = 3
    /\ NoBundleNoTexture(uniforms)
    /\ uniforms[1] # uniforms[2]
    /\ Len(events) = 3

----------------------------------------------------------------------------
(* Properties of resolve and compute_tex, checked under Spec *)

\* C1: when resolve succeeds it returns one resolved holder per input holder,
\* the i-th with the i-th input holder's name and the resolution of its value,
\* whatever the order in which the tasks completed; the same holds for every
\* nested bundle a task has joined.
C1_ResolveKeepsOrder ==
    /\ pc = "flatten" =>
          /\ Len(uniforms) = Len(bundle)
          /\ \A i \in 1..Len(bundle) :
                /\ uniforms[i].name = bundle[i].name
                /\ uniforms[i].value = ResolvedValue(bundle[i].value)
    /\ \A p \in DOMAIN tasks :
          tasks[p].st = "done" =>
             LET h == HolderAt(bundle, p) IN
             /\ tasks[p].out.name = h.name
             /\ tasks[p].out.value = ResolvedValue(h.value)

\* C1 witness: resolve succeeded on a bundle holding a non-empty nested bundle
\* after its top-level tasks completed in exact reverse order
C1_Witness ==
    /\ pc = "flatten"
    /\ <<>> \in reversed
    /\ \E i \in 1..Len(uniforms) :
          IsBundleHolder(uniforms[i]) /\ uniforms[i].value.v # <<>>

\* the tasks of a nested bundle completed in exact reverse order and resolve
\* succeeded
NestedReverseReached ==
    pc = "flatten" /\ \E p \in reversed : p # <<>>

\* C2: once the resolution of a holder (any level) has failed, resolve returns
\* an error and no resolved holders; compute_tex returns that error having
\* flattened nothing, allocated no descriptor set, written no descriptor and
\* recorded no command.
C2_FailureAbortsAll ==
    failed_any =>
        /\ pc \in {"join", "done"}
        /\ pc = "done" => result = Err("resolve")
        /\ uniforms = <<>>
        /\ events = <<>> /\ flattened_uniforms = EmptyMap
        /\ descriptor_sets = <<>> /\ dynamic_offsets = <<>> /\ arena.used = 0
        /\ device_updates = <<>>
        /\ commands = <<>> /\ reports = <<>>

\* C2 witness: compute_tex returned the resolve error although another holder
\* of the bundle had resolved
C2_Witness ==
    /\ pc = "done" /\ failed_any
    /\ result = Err("resolve")
    /\ Len(bundle) >= 2

\* index of the last SetUniform of name n in the stream
LastSet(evs, n) ==
    CHOOSE i \in 1..Len(evs) :
        /\ IsSet(evs[i]) /\ evs[i].name = n
        /\ \A j \in (i + 1)..Len(evs) : ~(IsSet(evs[j]) /\ evs[j].name = n)

\* C7: the flat map holds exactly the names of the SetUniform events, each with
\* the value of the last SetUniform event of that name in stream order.
C7_LastWriteWins ==
    /\ DOMAIN flattened_uniforms =
          {events[i].name : i \in {j \in 1..Len(events) : IsSet(events[j])}}
    /\ \A n \in DOMAIN flattened_uniforms :
          flattened_uniforms[n] = events[LastSet(events, n)].value

\* C7 witness: a holder of a nested bundle overwrote a same-named holder of the
\* enclosing level
C7_Witness ==
    /\ pc = "lock_pool"
    /\ \E i, j \in 1..Len(events) :
          /\ i < j
          /\ IsSet(events[i]) /\ IsSet(events[j])
          /\ events[i].name = events[j].name
          /\ DepthAt(events, i) = 0 /\ DepthAt(events, j) = 1
          /\ events[i].value # events[j].value
          /\ flattened_uniforms[events[j].name] = events[j].value

CeilDiv(n, d) == (n + d - 1) \div d

\* C8: the dispatch has (ceil(width / 8), ceil(height / 8), 1) work groups.
C8_DispatchRoundsUp ==
    \A i \in 1..Len(commands) :
        commands[i].cmd = "dispatch" =>
            /\ commands[i].x = CeilDiv(key.width, 8)
            /\ commands[i].y = CeilDiv(key.height, 8)
            /\ commands[i].z = 1

\* the four commands of one invocation, in order
IsExpectedCommand(i, c) ==
    CASE i = 1 -> /\ c.cmd = "image_barrier" /\ c.image = output_tex.image
                  /\ c.prev = "Nothing" /\ c.next = "ComputeShaderWrite" /\ c.discard
      [] i = 2 -> c.cmd = "bind_pipeline" /\ c.pipeline = cs.pipeline
      [] i = 3 -> /\ c.cmd = "bind_descriptor_sets"
                  /\ c.descriptor_sets = descriptor_sets
                  /\ c.dynamic_offsets = dynamic_offsets
      [] i = 4 -> c.cmd = "dispatch"
      [] OTHER -> FALSE

\* C9: a successful compute_tex has recorded, once each and in this order, the
\* image barrier (Nothing -> ComputeShaderWrite, discard), the pipeline bind,
\* the descriptor-set bind with the binder's dynamic offsets and the dispatch;
\* the debug report (shader name, output view) is made only after the dispatch.
C9_CommandOrder ==
    /\ \A i \in 1..Len(commands) : IsExpectedCommand(i, commands[i])
    /\ result.tag = "Ok" => Len(commands) = 4 /\ Len(reports) = 1
    /\ reports # <<>> =>
          /\ Len(commands) = 4
          /\ reports = << [name |-> cs.name, view |-> output_tex.view] >>

\* C9 witness: a successful invocation whose binder returned a dynamic offset
C9_Witness ==
    /\ result.tag = "Ok"
    /\ dynamic_offsets # <<>>
    /\ Len(commands) = 4

\* C10: arena exhaustion, a member type mismatch and a reflection error met
\* while binding end compute_tex with an error result, not with a panic.
C10_BinderFaultsAreErrors ==
    result.why \in {"arena", "member", "reflection"} => result.tag = "Err"

----------------------------------------------------------------------------
(* Properties of update_descriptor_sets, checked under SpecBind *)

IsUniformBuffer(b) == b.descriptor_type = "UniformBuffer"
IsStorageImage(b) == b.descriptor_type = "StorageImage"
IsBufferWrite(w) == w.descriptor_type = "UNIFORM_BUFFER_DYNAMIC"
IsImageWrite(w) == w.descriptor_type = "STORAGE_IMAGE"

RECURSIVE AllBindings(_)
\* the binding table of a reflection: the bindings of its sets, in order
AllBindings(sets) ==
    IF sets = <<>> THEN <<>> ELSE Head(sets).bindings \o AllBindings(Tail(sets))

BindingTable == AllBindings(cs.spirv_reflection.sets)
UniformBlocks == SelectSeq(BindingTable, IsUniformBuffer)

RECURSIVE BlockBytes(_)
BlockBytes(bs) == IF bs = <<>> THEN 0 ELSE Head(bs).block.size + BlockBytes(Tail(bs))

\* the binder call of this step returned Ok
BinderReturns == pc = "update" /\ pc' = "lock_cb"
\* the binder call of this step did not return: the thread panicked
BinderPanics == pc = "update" /\ pc' = "done"

\* the writes of the last device update
LastBatch(updates) == IF updates = <<>> THEN <<>> ELSE updates[Len(updates)]

\* a member takes the map's value: a float32 for 4 bytes, a Vec4 for 16
Takes(member, map) ==
    /\ member.name \in DOMAIN map
    /\ \/ map[member.name].kind \in {"Float32", "Float32Asset"} /\ member.size = 4
       \/ map[member.name].kind = "Vec4" /\ member.size = 16

\* the byte at offset k of a block's region once the members that take a value
\* hold it
ExpectedByte(block, map, k) ==
    LET owners == {j \in 1..Len(block.members) :
                      /\ Takes(block.members[j], map)
                      /\ block.members[j].absolute_offset <= k
                      /\ k < block.members[j].absolute_offset + block.members[j].size}
    IN  IF owners = {} THEN Uninit
        ELSE LET m == block.members[CHOOSE j \in owners : TRUE]
                 val == map[m.name]
                 off == k - m.absolute_offset
             IN  IF val.kind = "Vec4"
                 THEN [of |-> val.v[(off \div 4) + 1], byte |-> off % 4]
                 ELSE [of |-> F32(val.v, 1), byte |-> off]

\* C11: when the binder returns, every uniform-block binding has one buffer
\* write over an arena region of the block's byte size; in that region each
\* member named in the map with a float32 value and size 4, or a Vec4 value and
\* size 16, holds the value's bytes in [offset, offset + size), and every other
\* byte is unwritten.
C11_UniformBlockBytes ==
    [][ BinderReturns =>
          LET bufw == SelectSeq(LastBatch(device_updates'), IsBufferWrite) IN
          /\ Len(bufw) = Len(UniformBlocks)
          /\ arena'.used = arena.used + BlockBytes(UniformBlocks)
          /\ \A i \in 1..Len(bufw) :
                LET block == UniformBlocks[i].block IN
                /\ bufw[i].dst_binding = UniformBlocks[i].binding
                /\ bufw[i].info.range = block.size
                /\ Len(bufw[i].region.contents) = block.size
                /\ \A k \in 0..(block.size - 1) :
                      bufw[i].region.contents[k + 1] =
                          ExpectedByte(block, flattened_uniforms, k)
      ]_vars

\* C11 witness: the binder returned after writing a float at bytes 0..3 and a
\* Vec4 at bytes 16..31 of a block, the bytes between them untouched
C11_Witness ==
    /\ pc = "lock_cb"
    /\ \E w \in Range(LastBatch(device_updates)) :
          /\ IsBufferWrite(w)
          /\ Len(w.region.contents) = 32
          /\ w.region.contents[1].of = F32(1, 1)
          /\ w.region.contents[5] = Uninit
          /\ w.region.contents[17] = [of |-> F32(5, 1), byte |-> 0]
          /\ w.region.contents[32] = [of |-> F32(8, 1), byte |-> 3]

\* the map holds, under the name of a member of one of the shader's uniform
\* blocks, a value that member does not take
Mismatched ==
    \E i \in 1..Len(UniformBlocks) :
        \E j \in 1..Len(UniformBlocks[i].block.members) :
            LET member == UniformBlocks[i].block.members[j] IN
            member.name \in DOMAIN flattened_uniforms /\ ~Takes(member, flattened_uniforms)

\* C12: with a value of the wrong size or of an unrecognised kind under the
\* name of a uniform-block member, the binder never completes normally: no
\* device update is applied, no dynamic offsets are returned, compute_tex
\* records no command and returns no texture.
C12_MismatchNeverCompletes ==
    Mismatched =>
        /\ pc \in {"update", "done"}
        /\ result.tag \in {"None", "Panic"}
        /\ device_updates = <<>>
        /\ dynamic_offsets = <<>>
        /\ commands = <<>> /\ reports = <<>>

\* C12 witness: the binder panicked on a Vec4 held for a 4-byte member, after an
\* earlier binding of the table had produced its write
C12_Witness ==
    /\ pc = "done" /\ result = Panic("member")
    /\ "v" \in DOMAIN flattened_uniforms
    /\ flattened_uniforms["v"].kind = "Vec4"
    /\ Len(BindingTable) = 2
    /\ IsStorageImage(BindingTable[1])
    /\ BindingTable[2].name = "odd"

\* the map holds a texture under the binding's declared name
HoldsTexture(b) ==
    /\ b.name \in DOMAIN flattened_uniforms
    /\ flattened_uniforms[b.name].kind = "TextureAsset"

IsBoundImage(b) == IsStorageImage(b) /\ HoldsTexture(b)

\* C13: when the binder returns, the STORAGE_IMAGE writes are, in table order,
\* one per storage-image binding whose name maps to a texture, each for that
\* binding's index and that texture's view; a storage-image binding whose name
\* is absent or maps to another kind of value gets no write, and no
\* storage-image binding makes the binder fail.
C13_StorageImageWrite ==
    [][ /\ BinderReturns =>
             LET imgw == SelectSeq(LastBatch(device_updates'), IsImageWrite)
                 bound == SelectSeq(BindingTable, IsBoundImage)
             IN  /\ Len(imgw) = Len(bound)
                 /\ \A i \in 1..Len(imgw) :
                       /\ imgw[i].dst_binding = bound[i].binding
                       /\ imgw[i].dst_set = descriptor_sets[1]
                       /\ imgw[i].info.image_view = flattened_uniforms[bound[i].name].v.view
                       /\ imgw[i].info.image_layout = "GENERAL"
        /\ BinderPanics =>
             /\ UniformBlocks # <<>>
             /\ result'.why \in {"arena", "member"}
      ]_vars

\* C13 witness: the binder returned with one image write, for the output
\* texture, the table's other storage image being named by a float in the map
C13_Witness ==
    /\ pc = "lock_cb"
    /\ Len(BindingTable) = 2
    /\ BindingTable[1].name = "inputTex" /\ IsStorageImage(BindingTable[1])
    /\ "inputTex" \in DOMAIN flattened_uniforms
    /\ flattened_uniforms["inputTex"].kind = "Float32"
    /\ LastBatch(device_updates) =
          << [dst_set |-> descriptor_sets[1], dst_binding |-> 1, dst_array_element |-> 0,
              descriptor_type |-> "STORAGE_IMAGE",
              info |-> [image_layout |-> "GENERAL", image_view |-> output_tex.view]] >>

IsSupported(b) == IsUniformBuffer(b) \/ IsStorageImage(b)

\* the reflection without its bindings of other kinds (binding indices kept)
Supported(refl) ==
    [refl EXCEPT !.sets = [i \in 1..Len(refl.sets) |->
                              [bindings |-> SelectSeq(refl.sets[i].bindings, IsSupported)]]]

\* the binder call of this step ended, one way or the other
BinderEnds == pc = "update" /\ pc' # "update"

\* C14: a binding that is neither a uniform block nor a storage image gets no
\* write and no dynamic offset and does not change how the call ends: the
\* bindings after it are processed, and the call returns or fails, with the
\* same offsets and writes, exactly as for the table without that binding.
C14_UnsupportedSkipped ==
    [][ BinderEnds =>
          LET r == update_descriptor_sets(Supported(cs.spirv_reflection), descriptor_sets,
                                          flattened_uniforms, arena)
          IN  /\ BinderReturns <=> r.status = "ok"
              /\ arena' = r.arena
              /\ BinderReturns =>
                    /\ dynamic_offsets' = r.ds_offsets
                    /\ device_updates' = device_updates \o r.updates
                    /\ Len(dynamic_offsets') = Len(UniformBlocks)
                    /\ \A w \in Range(LastBatch(device_updates')) :
                          \E i \in 1..Len(BindingTable) :
                              /\ BindingTable[i].binding = w.dst_binding
                              /\ IsSupported(BindingTable[i])
              /\ BinderPanics => result'.why = r.why
      ]_vars

\* C14 witness: the binder returned the offset and the write of a uniform block
\* that follows a sampler in the table
C14_Witness ==
    /\ pc = "lock_cb"
    /\ Len(BindingTable) = 2
    /\ ~IsSupported(BindingTable[1])
    /\ IsUniformBuffer(BindingTable[2])
    /\ Len(dynamic_offsets) = 1
    /\ Len(LastBatch(device_updates)) = 1
    /\ LastBatch(device_updates)[1].dst_binding = 1

\* the names the shader looks up: its uniform-block members and its storage
\* images
UsedNames ==
    UNION {{UniformBlocks[i].block.members[j].name :
               j \in 1..Len(UniformBlocks[i].block.members)} : i \in 1..Len(UniformBlocks)}
    \cup {BindingTable[i].name : i \in {j \in 1..Len(BindingTable) :
                                          IsStorageImage(BindingTable[j])}}

Restrict(map, names) == [n \in DOMAIN map \cap names |-> map[n]]

\* C15: the call ends exactly as it does on the map without the entries whose
\* names the shader does not look up (same return or panic, same writes with
\* the same buffer contents, same offsets), so two maps that differ only in such
\* entries give the same outcome.
C15_UnusedNamesIgnored ==
    [][ BinderEnds =>
          LET r == update_descriptor_sets(cs.spirv_reflection, descriptor_sets,
                                          Restrict(flattened_uniforms, UsedNames), arena)
          IN  /\ BinderReturns <=> r.status = "ok"
              /\ arena' = r.arena
              /\ BinderReturns =>
                    /\ dynamic_offsets' = r.ds_offsets
                    /\ device_updates' = device_updates \o r.updates
              /\ BinderPanics => result'.why = r.why
      ]_vars

\* C15 witness: the binder returned an offset and writes although the map also
\* held a texture, its size and an integer under names the shader does not use
C15_Witness ==
    /\ pc = "lock_cb"
    /\ dynamic_offsets # <<>>
    /\ Len(LastBatch(device_updates)) = 2
    /\ \E n, k \in DOMAIN flattened_uniforms \ UsedNames :
          /\ flattened_uniforms[n].kind = "TextureAsset"
          /\ flattened_uniforms[k].kind = "Int32"

RECURSIVE ArenaOffsets(_, _)
\* the offsets the arena returns for one allocation per block, in order
ArenaOffsets(a, blocks) ==
    IF blocks = <<>> THEN <<>>
    ELSE LET al == Allocate(a, Head(blocks).block.size) IN
         <<al.offset>> \o ArenaOffsets(al.arena, Tail(blocks))

NoMemberNamed ==
    \A i \in 1..Len(UniformBlocks) :
        \A j \in 1..Len(UniformBlocks[i].block.members) :
            UniformBlocks[i].block.members[j].name \notin DOMAIN flattened_uniforms

\* C16: the returned dynamic offsets are, in binding-table order, the offsets
\* the arena gave for the allocations of the uniform-block bindings, one per
\* such binding whether or not a member of the block is in the map, and nothing
\* for the other bindings; each is the offset of the region its write describes.
C16_OffsetPerUniformBlock ==
    [][ BinderReturns =>
          LET bufw == SelectSeq(LastBatch(device_updates'), IsBufferWrite) IN
          /\ Len(dynamic_offsets') = Len(UniformBlocks)
          /\ dynamic_offsets' = ArenaOffsets(arena, UniformBlocks)
          /\ Len(bufw) = Len(dynamic_offsets')
          /\ \A i \in 1..Len(bufw) : bufw[i].region.offset = dynamic_offsets'[i]
      ]_vars

\* C16 witness: two uniform blocks, no member of which is in the map, got two
\* different offsets, the first not at the start of the arena
C16_Witness ==
    /\ pc = "lock_cb"
    /\ Len(UniformBlocks) = 2
    /\ NoMemberNamed
    /\ Len(dynamic_offsets) = 2
    /\ 0 < dynamic_offsets[1] /\ dynamic_offsets[1] < dynamic_offsets[2]

\* the bindings that get a write: uniform blocks, and storage images whose name
\* maps to a texture
IsWritten(b) == IsUniformBuffer(b) \/ IsBoundImage(b)

\* C17: a call that returns has made one device update holding the writes of
\* all its bindings, in table order, or none when there was nothing to write;
\* a call that fails at some binding has made no device update, whatever the
\* bindings before it produced.
C17_SingleBatchedUpdate ==
    [][ /\ BinderReturns =>
             LET written == SelectSeq(BindingTable, IsWritten) IN
             IF written = <<>>
             THEN device_updates' = device_updates
             ELSE /\ Len(device_updates') = Len(device_updates) + 1
                  /\ SubSeq(device_updates', 1, Len(device_updates)) = device_updates
                  /\ Len(LastBatch(device_updates')) = Len(written)
                  /\ \A i \in 1..Len(written) :
                        LastBatch(device_updates')[i].dst_binding = written[i].binding
        /\ BinderPanics => device_updates' = device_updates
      ]_vars

\* C17 witness: one device update carried a buffer write and an image write
C17_Witness ==
    /\ pc = "lock_cb"
    /\ Len(device_updates) = 1
    /\ Len(device_updates[1]) = 2
    /\ IsImageWrite(device_updates[1][1])
    /\ IsBufferWrite(device_updates[1][2])

\* a call that produced no write made no device update
NoWriteNoUpdateReached ==
    /\ pc = "lock_cb"
    /\ BindingTable # <<>>
    /\ device_updates = <<>>

\* a call that failed at its second binding, after the first had produced a
\* write, made no device update
LateFailureReached ==
    /\ pc = "done" /\ result.tag = "Panic"
    /\ Len(BindingTable) = 2
    /\ IsWritten(BindingTable[1])
    /\ device_updates = <<>>

RECURSIVE Concat(_)
Concat(seqs) == IF seqs = <<>> THEN <<>> ELSE Head(seqs) \o Concat(Tail(seqs))

IsDynamicBuffer(e) == e.descriptor_type = "UNIFORM_BUFFER_DYNAMIC"

\* the layouts the descriptor sets were allocated with
AllocatedLayouts == [i \in 1..Len(descriptor_sets) |-> descriptor_sets[i].layout]

\* the layout entry of a binding has the binding's index and count, and is a
\* dynamic uniform buffer for a uniform block, a storage image for a storage image
EntryMatches(e, b) ==
    /\ e.binding = b.binding
    /\ e.descriptor_count = b.count
    /\ IsUniformBuffer(b) <=> e.descriptor_type = "UNIFORM_BUFFER_DYNAMIC"
    /\ IsStorageImage(b) <=> e.descriptor_type = "STORAGE_IMAGE"

\* a reflection whose sets cannot be enumerated fails both functions, any other
\* one neither
ReflectionErrorsAgree ==
    \A m \in ShaderModules \cup BindModules :
        /\ generate_descriptor_set_layouts(m).ok <=> m.enumerate_ok
        /\ (update_descriptor_sets(m, <<>>, EmptyMap, [used |-> 0]).status = "err")
              <=> ~m.enumerate_ok

\* C22: the layouts have one entry per uniform-block or storage-image binding
\* of each set, in the set's order, and none for any other binding; when the
\* binder returns, its dynamic offsets are as many as the UNIFORM_BUFFER_DYNAMIC
\* entries of the layouts the sets were allocated with, the k-th offset being
\* that of the k-th such entry's binding.
C22_LayoutsAgreeWithBinder ==
    [][ BinderReturns =>
          LET sets == cs.spirv_reflection.sets
              dyn == SelectSeq(Concat(AllocatedLayouts), IsDynamicBuffer)
              bufw == SelectSeq(LastBatch(device_updates'), IsBufferWrite)
          IN  /\ ReflectionErrorsAgree
              /\ Len(AllocatedLayouts) = Len(sets)
              /\ \A i \in 1..Len(sets) :
                    LET sup == SelectSeq(sets[i].bindings, IsSupported) IN
                    /\ Len(AllocatedLayouts[i]) = Len(sup)
                    /\ \A j \in 1..Len(sup) : EntryMatches(AllocatedLayouts[i][j], sup[j])
              /\ Len(dynamic_offsets') = Len(dyn)
              /\ Len(bufw) = Len(dyn)
              /\ \A k \in 1..Len(dyn) :
                    /\ bufw[k].dst_binding = dyn[k].binding
                    /\ bufw[k].region.offset = dynamic_offsets'[k]
      ]_vars

\* C22 witness: the binder returned two offsets for a reflection of two sets
\* with a uniform block each
C22_Witness ==
    /\ pc = "lock_cb"
    /\ Len(cs.spirv_reflection.sets) = 2
    /\ Len(descriptor_sets) = 2
    /\ Len(SelectSeq(Concat(AllocatedLayouts), IsDynamicBuffer)) = 2
    /\ Len(dynamic_offsets) = 2

\* the binder returned one offset for a set holding a sampler before its
\* uniform block
SamplerBeforeBlockReached ==
    /\ pc = "lock_cb"
    /\ Len(BindingTable) = 2 /\ Len(descriptor_sets) = 1
    /\ ~IsSupported(BindingTable[1]) /\ IsUniformBuffer(BindingTable[2])
    /\ Len(AllocatedLayouts[1]) = 1
    /\ dynamic_offsets # <<>>

----------------------------------------------------------------------------
(* Properties of two invocations on one frame, checked under SpecFrame *)

Recording == pc \in {"image_barrier", "bind_pipeline", "bind_descriptor_sets", "dispatch"}

\* both invocations are inside device.allocate_descriptor_sets on the frame's pool
BothAllocating == pc = "allocate" /\ other_pc = "allocate"

\* C18: the descriptor-pool mutex is held while allocate_descriptor_sets runs
\* and is free again when command recording starts, and the two invocations
\* are never both inside their allocation on the shared pool.
C18_PoolMutexHeldDuringAllocation ==
    /\ pc = "allocate" => descriptor_pool_mutex = "held"
    /\ Recording => descriptor_pool_mutex = "free"
    /\ ~BothAllocating

OtherRecording ==
    other_pc \in {"image_barrier", "bind_pipeline", "bind_descriptor_sets", "dispatch"}

\* the four commands of the other invocation
OtherCommands ==
    << ImageBarrierCmd(OtherOutputTex), BindPipelineCmd(OtherShader),
       BindDescriptorSetsCmd(OtherShader, OtherDescriptorSets, <<>>),
       DispatchCmd(OtherKey) >>

ByOther(c) == c \in Range(OtherCommands)
ByThis(c) == ~ByOther(c)

\* C21: from before its image barrier until after its dispatch an invocation
\* holds the command-buffer mutex, and in the command stream the commands of
\* each invocation are its barrier, pipeline bind, descriptor-set bind and
\* dispatch, in order and next to each other: the second invocation's first
\* command comes after the first invocation's dispatch.
C21_CommandsNotInterleaved ==
    /\ (Recording \/ pc = "report") => command_buffer_mutex = "held"
    /\ (OtherRecording \/ other_pc = "report") => command_buffer_mutex = "held by other"
    /\ LET this == SelectSeq(commands, ByThis)
           that == SelectSeq(commands, ByOther)
       IN  /\ \A i \in 1..Len(this) : IsExpectedCommand(i, this[i])
           /\ that = SubSeq(OtherCommands, 1, Len(that))
           /\ \/ commands = this \o that /\ (that # <<>> => Len(this) = 4)
              \/ commands = that \o this /\ (this # <<>> => Len(that) = 4)

\* C21 witness: both invocations recorded their four commands, the other one
\* first
C21_Witness ==
    /\ pc = "done" /\ other_pc = "done"
    /\ Len(commands) = 8
    /\ ByOther(commands[1]) /\ ByOther(commands[4])
    /\ ByThis(commands[5]) /\ ByThis(commands[8])

\* this invocation is at its lock statement while the other is in the middle of
\* its four commands
WaitingForOtherReached ==
    /\ pc = "lock_cb"
    /\ other_pc = "bind_descriptor_sets"
    /\ command_buffer_mutex = "held by other"
    /\ Len(commands) = 2

\* the other invocation is at its lock statement while this one is in the
\* middle of its four commands
OtherWaitingReached ==
    /\ other_pc = "lock_cb"
    /\ pc = "dispatch"
    /\ command_buffer_mutex = "held"
    /\ Len(commands) = 3

----------------------------------------------------------------------------
(* Properties of the whole of compute_tex, checked under Spec *)

\* a resolution task of the invocation has not finished
Pending == \E p \in DOMAIN tasks : tasks[p].st \in {"spawned", "joining"}

\* the stages of compute_tex, by what each has left behind
Joined ==
    /\ ~Pending
    /\ Len(uniforms) >= Len(bundle)
    /\ \A i \in 1..Len(bundle) : uniforms[i] = Holder(bundle[i].name,
                                                      ResolvedValue(bundle[i].value))
OutputAppended ==
    /\ Len(uniforms) = Len(bundle) + 1
    /\ uniforms[Len(uniforms)] = Holder("outputTex", TextureAsset(output_tex))
FlatteningDone ==
    /\ events # <<>>
    /\ Len(events) = Len(ConcatEvents(AllLeaves(uniforms))) + 2 * BundleHolderCount(uniforms)
    /\ "outputTex" \in DOMAIN flattened_uniforms
    /\ "outputTex_size" \in DOMAIN flattened_uniforms
SetAllocated == Len(descriptor_sets) = Len(cs.descriptor_set_layouts) /\ descriptor_sets # <<>>
BinderDone ==
    /\ Len(dynamic_offsets) = Len(UniformBlocks)
    /\ arena.used >= BlockBytes(UniformBlocks)
    /\ (SelectSeq(BindingTable, IsWritten) # <<>>) <=> (device_updates # <<>>)

\* C19: the stages happen in the order join, output holder, flatten, allocate,
\* bind, record: what a stage leaves behind is there only when every earlier
\* stage has finished, and while a resolution task is pending no event has
\* been delivered, no set allocated, no descriptor written and no command
\* recorded.
C19_StageOrder ==
    /\ Pending =>
          /\ uniforms = <<>> /\ events = <<>> /\ flattened_uniforms = EmptyMap
          /\ descriptor_sets = <<>> /\ dynamic_offsets = <<>>
          /\ device_updates = <<>> /\ commands = <<>> /\ reports = <<>>
    /\ uniforms # <<>> => Joined
    /\ (events # <<>> \/ flattened_uniforms # EmptyMap) =>
          Joined /\ OutputAppended /\ FlatteningDone
    /\ pc \in {"lock_pool", "allocate", "update", "lock_cb"} \/ Recording \/ pc = "report" =>
          Joined /\ OutputAppended /\ FlatteningDone
    /\ descriptor_sets # <<>> => FlatteningDone /\ SetAllocated
    /\ (device_updates # <<>> \/ dynamic_offsets # <<>> \/ arena.used > 0) =>
          FlatteningDone /\ SetAllocated
    /\ (commands # <<>> \/ pc = "lock_cb" \/ Recording) =>
          FlatteningDone /\ SetAllocated /\ BinderDone

\* C19 witness: an invocation went through every stage after the tasks of its
\* nested bundle had completed in reverse order
C19_Witness ==
    /\ pc = "report"
    /\ \E p \in reversed : p # <<>>
    /\ Len(commands) = 4
    /\ device_updates # <<>>
    /\ Len(events) >= 5

\* C20: whatever the caller's bundle holds, the map handed to the binder maps
\* "outputTex" to the output image, and a successful invocation has written
\* every storage-image binding named "outputTex" with the view of the texture
\* it returns.
C20_OutputTexReserved ==
    /\ flattened_uniforms # EmptyMap =>
          /\ "outputTex" \in DOMAIN flattened_uniforms
          /\ flattened_uniforms["outputTex"] = TextureAsset(output_tex)
    /\ result.tag = "Ok" =>
          \A i \in 1..Len(BindingTable) :
              (IsStorageImage(BindingTable[i]) /\ BindingTable[i].name = "outputTex") =>
                  \E w \in Range(LastBatch(device_updates)) :
                      /\ IsImageWrite(w)
                      /\ w.dst_binding = BindingTable[i].binding
                      /\ w.info.image_view = result.tex.view

\* a successful invocation whose output binding was left unwritten, or written
\* with another texture than the one returned
OutputBindingLostReached ==
    /\ result.tag = "Ok"
    /\ \E i \in 1..Len(BindingTable) :
          /\ IsStorageImage(BindingTable[i]) /\ BindingTable[i].name = "outputTex"
          /\ \A w \in Range(LastBatch(device_updates)) :
                w.dst_binding = BindingTable[i].binding =>
                    w.info.image_view # result.tex.view

====
